---- MODULE Spec2Model ----
(***************************************************************************)
(* Model of src/services/export/tar.js (exportToTar): the manifest build   *)
(* (getNote), the reference filter, and the archive emission (saveNote).   *)
(*                                                                         *)
(* Strings that the code inspects character by character (titles, file     *)
(* names, paths) are sequences of one-character strings, so toLowerCase,   *)
(* endsWith and concatenation are computed as the code computes them.      *)
(* An optional JavaScript property is a sequence of length 0 (absent) or 1 *)
(* (present).                                                              *)
(***************************************************************************)
EXTENDS Integers, Sequences, FiniteSets, TLC

\* ------------------------------------------------------------------ bounds
NumNotes == 3

MaxBranches == 3

Notes == 1 .. NumNotes

\* every frame of the getNote recursion belongs to a different registered
\* note, so the code never nests deeper than the number of notes
MaxDepth == NumNotes + 1

\* ------------------------------------------------------- optional values
None == << >>

Some(x) == << x >>

IsSome(o) == Len(o) > 0

Get(o) == o[1]

\* --------------------------------------------------------------- strings
LcChar(c) ==
    CASE c = "A" -> "a"
      [] c = "R" -> "r"
      [] c = "P" -> "p"
      [] OTHER -> c

\* String.prototype.toLowerCase
ToLowerCase(s) == [i \in 1 .. Len(s) |-> LcChar(s[i])]

\* String.prototype.endsWith
EndsWith(s, suffix) ==
    /\ Len(suffix) <= Len(s)
    /\ SubSeq(s, Len(s) - Len(suffix) + 1, Len(s)) = suffix

Digit(d) ==
    CASE d = 0 -> "0" [] d = 1 -> "1" [] d = 2 -> "2" [] d = 3 -> "3"
      [] d = 4 -> "4" [] d = 5 -> "5" [] d = 6 -> "6" [] d = 7 -> "7"
      [] d = 8 -> "8" [] d = 9 -> "9"

RECURSIVE NumToString(_)
\* the decimal text JavaScript concatenates for a non-negative integer
NumToString(n) ==
    IF n < 10 THEN << Digit(n) >>
    ELSE NumToString(n \div 10) \o << Digit(n % 10) >>

\* characters the sanitize-filename package removes (those of the alphabet)
IllegalChars == {"?", "/"}

\* sanitize(name): the package deletes the illegal characters
sanitize(s) == SelectSeq(s, LAMBDA c : c \notin IllegalChars)

\* mimeTypes.extension(mime): the extension of a known mime type, else false
MimeExtension(mime) ==
    CASE mime = "text/html" -> Some(<< "h", "t", "m", "l" >>)
      [] mime = "image/png" -> Some(<< "p", "n", "g" >>)
      [] OTHER -> None

\* --------------------------------------------------- getUniqueFilename
RECURSIVE UniqueLoop(_, _)
\* the do-while loop: take the counter, increment it, retry while the
\* lower-cased candidate with that suffix is a key of the table
UniqueLoop(existing, lc) ==
    LET index == existing[lc]
        bumped == [existing EXCEPT ![lc] = @ + 1]
        newName == lc \o << "_" >> \o NumToString(index)
    IN  IF newName \in DOMAIN bumped
        THEN UniqueLoop(bumped, lc)
        ELSE [table |-> bumped, index |-> index]

\* getUniqueFilename(existingFileNames, fileName): the returned name and the
\* table as the call leaves it (the suffixed name itself is not recorded)
getUniqueFilename(existing, fileName) ==
    LET lcFileName == ToLowerCase(fileName)
    IN  IF lcFileName \in DOMAIN existing
        THEN LET r == UniqueLoop(existing, lcFileName)
                 suffix == << "_" >> \o NumToString(r.index)
             IN  [name |-> fileName \o suffix,
                  table |-> r.table]
        ELSE [name |-> fileName, table |-> existing @@ (lcFileName :> 1)]

\* ----------------------------------------------------- getDataFileName
\* the extension chosen for a note under a format
Extension(note, format) ==
    IF note.type = "text" /\ format = "markdown" THEN << "m", "d" >>
    ELSE IF note.mime = "application/x-javascript" THEN << "j", "s" >>
    ELSE IF IsSome(MimeExtension(note.mime)) THEN Get(MimeExtension(note.mime))
    ELSE << "d", "a", "t" >>

\* the candidate name before it is made unique
DataFileCandidate(note, baseFileName, format) ==
    LET extension == Extension(note, format)
    IN  IF ~ EndsWith(ToLowerCase(baseFileName), extension)
        THEN baseFileName \o << "." >> \o extension
        ELSE baseFileName

getDataFileName(note, baseFileName, existing, format) ==
    getUniqueFilename(existing, DataFileCandidate(note, baseFileName, format))

\* the name a branch contributes: prefix + " - " + title, or the title
BaseFileName(b, note) ==
    IF IsSome(b.prefix)
    THEN Get(b.prefix) \o << " ", "-", " " >> \o note.title
    ELSE note.title

\* ---------------------------------------------------- the note repository
\* The persistence layer is read-only during an export.  A repository is
\* drawn from a family of note graphs: up to MaxBranches branches among
\* NumNotes notes, note 1 being the note of the exported branch, notes
\* numbered in order of discovery (which fixes one representative of every
\* graph up to renaming of noteIds).

Max(S) == CHOOSE x \in S : \A y \in S : y <= x

\* the notes a list of (parent, child) branches has reached from note 1
Discovered(g) == Max({1} \cup { g[j][2] : j \in 1 .. Len(g) })

\* a graph with one branch more: below the last parent or a later discovered
\* one, leading to a discovered note or to the next new one
Extensions(g) ==
    LET d == Discovered(g)
        first == IF g = << >> THEN 1 ELSE g[Len(g)][1]
    IN  { Append(g, << p, c >>) :
            p \in first .. d, c \in 1 .. (IF d < NumNotes THEN d + 1 ELSE d) }

RECURSIVE GraphsOfSize(_)
GraphsOfSize(k) ==
    IF k = 0 THEN { << >> }
    ELSE UNION { Extensions(g) : g \in GraphsOfSize(k - 1) }

\* the branches as (parent, child) pairs, listed parent by parent
Graphs == UNION { GraphsOfSize(k) : k \in 0 .. MaxBranches }

RECURSIVE BranchesFrom(_, _, _)
\* note.getChildBranches(): the branches below note n, in branch order
BranchesFrom(g, n, i) ==
    IF i > Len(g) THEN << >>
    ELSE IF g[i][1] = n
         THEN << [noteId |-> g[i][2], prefix |-> None, isExpanded |-> FALSE] >>
                  \o BranchesFrom(g, n, i + 1)
         ELSE BranchesFrom(g, n, i + 1)

\* note.title: the titles of the end-to-end scenario, titles that end with
\* an extension and with a numeric suffix, or titles with a character that
\* is illegal in a file name
TitleOf(scheme, n) ==
    CASE scheme = "scenario" ->
            IF n = 1 THEN << "R", "o", "o", "t" >>
            ELSE IF n = 2 THEN << "A" >> ELSE << "a" >>
      [] scheme = "collide" ->
            IF n <= 2 THEN << "m", "d" >> ELSE << "m", "d", "_", "1" >>
      [] scheme = "unsafe" ->
            IF n % 2 = 1 THEN << "a", "?" >> ELSE << "a" >>

TitleSchemes == {"scenario", "collide"}

\* note.type: all text, or a text root followed by a code note, a file note
\* and text notes
TypeOf(scheme, n) ==
    IF scheme = "text" \/ n = 1 \/ n > 3 THEN "text"
    ELSE IF n = 2 THEN "code" ELSE "file"

\* note.mime: all text/html, or text notes that carry an image mime type, a
\* JavaScript note and a note whose mime type has no known extension
MimeOf(scheme, n) ==
    IF scheme = "text" THEN "text/html"
    ELSE IF n = 2 THEN "application/x-javascript"
    ELSE IF n = 3 THEN "application/x-unknown"
    ELSE "image/png"

TypeSchemes == {"text", "mixed"}

Succ(n) == (n % NumNotes) + 1

\* owned attributes of note n when notes carry references: a label, a
\* relation to the next note and a relation to the note itself
AttributesOf(n) ==
    << [type |-> "label", name |-> "l", value |-> Succ(n),
        isInheritable |-> FALSE, position |-> 0],
       [type |-> "relation", name |-> "r", value |-> Succ(n),
        isInheritable |-> FALSE, position |-> 1],
       [type |-> "relation", name |-> "s", value |-> n,
        isInheritable |-> TRUE, position |-> 2] >>

\* links of note n when notes carry references: one to every note
LinksOf(n) == [i \in 1 .. NumNotes |-> [type |-> "hyper", targetNoteId |-> i]]

ContentSchemes == { {}, Notes, Notes \ {1} }

MakeRepo(e, titles, types, contentful, excluded, refs) ==
    [n \in Notes |->
        [noteId |-> n,
         title |-> TitleOf(titles, n),
         type |-> TypeOf(types, n),
         mime |-> MimeOf(types, n),
         content |-> IF n \in contentful THEN << "x" >> ELSE << >>,
         excludeFromExport |-> n \in excluded,
         attributes |-> IF refs THEN AttributesOf(n) ELSE << >>,
         links |-> IF refs THEN LinksOf(n) ELSE << >>,
         childBranches |-> BranchesFrom(e, n, 1)]]

\* repositories that vary names, content and types
NamingRepos ==
    { MakeRepo(e, t, y, c, {}, FALSE) :
        e \in Graphs, t \in TitleSchemes, y \in TypeSchemes, c \in ContentSchemes }

\* repositories that vary exclusion, with references between the notes
ReferenceRepos ==
    { MakeRepo(e, "scenario", "text", Notes, x, TRUE) :
        e \in Graphs, x \in { {} } \cup { {n} : n \in Notes } }

\* repositories without content in which one note below the root is excluded
ExclusionRepos ==
    { MakeRepo(e, "scenario", "text", {}, {n}, FALSE) :
        e \in Graphs, n \in Notes \ {1} }

\* repositories whose titles hold a character illegal in a file name
SanitizeRepos ==
    { MakeRepo(e, "unsafe", "text", c, {}, FALSE) :
        e \in Graphs, c \in { {}, Notes } }

Formats == {"markdown", "html"}

RootBranches ==
    { [noteId |-> 1, prefix |-> p, isExpanded |-> TRUE] :
        p \in { None, Some(<< "P" >>) } }

\* ------------------------------------------------------------------ state
VARIABLES
    repo,               \* the notes of the persistence layer, by noteId
    branch,             \* the branch handed to exportToTar
    format,             \* 'html' or 'markdown'
    pc,                 \* where exportToTar stands
    metas,              \* the manifest objects created so far, in creation order
    noteIdToMeta,       \* noteId -> the object registered for it
    existingFileNames,  \* the name table created by the top-level getNote call:
                        \* lower-cased name -> next suffix.  (The code creates
                        \* it as an array; the titles drawn here are none of
                        \* the property names an empty array already has.)
    stack,              \* the getNote calls in progress, innermost last
    rootMeta,           \* metaFile.files[0], absent when getNote returned nothing
    notePaths,          \* noteId -> file path
    saveStack,          \* the saveNote calls in progress, innermost last
    pack,               \* the tar pack: entries written, finalized, piped
    res                 \* the response: status, headers, whether it receives the pack

vars == << repo, branch, format, pc, metas, noteIdToMeta, existingFileNames,
           stack, rootMeta, notePaths, saveStack, pack, res >>

buildVars == << metas, noteIdToMeta, existingFileNames, stack, rootMeta >>

saveVars == << notePaths, saveStack, pack >>

Init ==
    /\ \/ /\ repo \in NamingRepos
          /\ branch \in { b \in RootBranches : b.prefix = None }
          /\ format \in Formats
       \/ /\ repo \in ReferenceRepos
          /\ branch \in RootBranches
          /\ format = "markdown"
       \/ /\ repo \in ExclusionRepos \cup SanitizeRepos
          /\ branch \in { b \in RootBranches : b.prefix = None }
          /\ format = "markdown"
    /\ pc = "start"
    /\ metas = << >>
    /\ noteIdToMeta = << >>
    /\ existingFileNames = << >>
    /\ stack = << >>
    /\ rootMeta = None
    /\ notePaths = << >>
    /\ saveStack = << >>
    /\ pack = [entries |-> << >>, finalized |-> FALSE]
    /\ res = [status |-> 0, headers |-> << >>, piped |-> FALSE]

\* ---------------------------------------------------------------- getNote
\* the object returned for a note that is already registered
CloneMeta(b, note, fileName) ==
    [clone |-> TRUE, noteId |-> note.noteId, prefix |-> b.prefix,
     dataFileName |-> Some(fileName), dirFileName |-> None, children |-> None,
     title |-> None, isExpanded |-> None, type |-> None, mime |-> None,
     attributes |-> None, links |-> None, format |-> None]

\* the object built for the first occurrence of a note
FullMeta(b, note, fmt, dataFileName, dirFileName) ==
    [clone |-> FALSE, noteId |-> note.noteId, prefix |-> b.prefix,
     dataFileName |-> dataFileName, dirFileName |-> dirFileName,
     children |-> IF IsSome(dirFileName) THEN Some(<< >>) ELSE None,
     title |-> Some(note.title), isExpanded |-> Some(b.isExpanded),
     type |-> Some(note.type), mime |-> Some(note.mime),
     attributes |-> Some(note.attributes), links |-> Some(note.links),
     format |-> IF note.type = "text" THEN Some(fmt) ELSE None]

\* a getNote that does not register the object it builds
RegisterNothing(map, noteId, idx) == map

\* noteIdToMeta[note.noteId] = meta, done before the children are visited
Register(map, noteId, idx) == (noteId :> idx) @@ map

\* a getNote that gives a data file only to notes with content
WantsDataFileForContent(note) == Len(note.content) > 0

\* whether the note gets a data file: it has content or it is a leaf
WantsDataFile(note) == Len(note.content) > 0 \/ Len(note.childBranches) = 0

\* a getNote that does not look at the exclusion label
IsExcludedNever(note) == FALSE

\* note.hasLabel('excludeFromExport')
IsExcluded(note) == note.excludeFromExport

\* getNote(branch, existingFileNames) up to its loop over the child branches:
\* the kind of outcome, the objects, map and name table as the call leaves
\* them, the object it created and the loop it still has to run
EnterNote(b, M, map, names) ==
    LET note == repo[b.noteId]
        baseFileName == BaseFileName(b, note)
        idx == Len(M) + 1
    IN  IF IsExcluded(note)
        THEN [kind |-> "excluded", metas |-> M, map |-> map, names |-> names,
              idx |-> 0, frame |-> None]
        ELSE IF note.noteId \in DOMAIN map
        THEN LET sanitizedFileName ==
                     sanitize(baseFileName \o << ".", "c", "l", "o", "n", "e" >>)
                 u == getUniqueFilename(names, sanitizedFileName)
             IN  [kind |-> "clone",
                  metas |-> Append(M, CloneMeta(b, note, u.name)),
                  map |-> map, names |-> u.table, idx |-> idx, frame |-> None]
        ELSE LET childBranches == note.childBranches
                 d == IF WantsDataFile(note)
                      THEN getDataFileName(note, baseFileName, names, format)
                      ELSE [name |-> << >>, table |-> names]
                 dataFileName == IF WantsDataFile(note) THEN Some(d.name) ELSE None
                 r == IF Len(childBranches) > 0
                      THEN getUniqueFilename(d.table, baseFileName)
                      ELSE [name |-> << >>, table |-> d.table]
                 dirFileName == IF Len(childBranches) > 0 THEN Some(r.name) ELSE None
             IN  [kind |-> "full",
                  metas |-> Append(M, FullMeta(b, note, format, dataFileName, dirFileName)),
                  map |-> Register(map, note.noteId, idx),
                  names |-> r.table,
                  idx |-> idx,
                  frame |-> IF Len(childBranches) > 0
                            THEN Some([meta |-> idx, childBranches |-> childBranches, i |-> 1])
                            ELSE None]

\* meta.children.push(note)
PushChild(M, parent, child) ==
    [M EXCEPT ![parent].children = Some(Append(Get(@), child))]

\* the call getNote(branch, []) of exportToTar
Start ==
    /\ pc = "start"
    /\ LET r == EnterNote(branch, metas, noteIdToMeta, existingFileNames)
       IN  /\ metas' = r.metas
           /\ noteIdToMeta' = r.map
           /\ existingFileNames' = r.names
           /\ IF IsSome(r.frame)
              THEN /\ stack' = << Get(r.frame) >>
                   /\ rootMeta' = None
                   /\ pc' = "build"
              ELSE /\ stack' = << >>
                   /\ rootMeta' = IF r.kind = "excluded" THEN None ELSE Some(r.idx)
                   /\ pc' = "filter"
    /\ UNCHANGED << repo, branch, format, res >>
    /\ UNCHANGED saveVars

\* one iteration of the loop over the child branches.  The recursive call is
\* handed existingFileNames, the caller's own table (childExistingNames is
\* created and never used), so one table serves the whole export.  The
\* bound on the depth never stops a call: see BuildTerminates.
VisitChild ==
    /\ pc = "build"
    /\ stack # << >>
    /\ LET top == stack[Len(stack)]
       IN  /\ top.i <= Len(top.childBranches)
           /\ LET r == EnterNote(top.childBranches[top.i], metas, noteIdToMeta,
                                 existingFileNames)
                  advanced == [stack EXCEPT ![Len(stack)].i = @ + 1]
              IN  /\ noteIdToMeta' = r.map
                  /\ existingFileNames' = r.names
                  /\ IF IsSome(r.frame)
                     THEN /\ Len(stack) < MaxDepth
                          /\ stack' = Append(advanced, Get(r.frame))
                          /\ metas' = r.metas
                     ELSE /\ stack' = advanced
                          /\ metas' = IF r.kind = "excluded" THEN r.metas
                                      ELSE PushChild(r.metas, top.meta, r.idx)
    /\ UNCHANGED << repo, branch, format, pc, rootMeta, res >>
    /\ UNCHANGED saveVars

\* the loop is over: getNote returns meta to its caller
Return ==
    /\ pc = "build"
    /\ stack # << >>
    /\ LET top == stack[Len(stack)]
           callers == SubSeq(stack, 1, Len(stack) - 1)
       IN  /\ top.i > Len(top.childBranches)
           /\ stack' = callers
           /\ IF callers = << >>
              THEN /\ rootMeta' = Some(top.meta)
                   /\ pc' = "filter"
                   /\ metas' = metas
              ELSE /\ rootMeta' = rootMeta
                   /\ pc' = pc
                   /\ metas' = PushChild(metas, callers[Len(callers)].meta, top.meta)
    /\ UNCHANGED << repo, branch, format, noteIdToMeta, existingFileNames, res >>
    /\ UNCHANGED saveVars

\* ------------------------------------------------------- reference filter
\* a filter that forgets the relation attributes
FilterLinksOnly(m, map) ==
    [m EXCEPT
        !.links = Some(SelectSeq(Get(@),
            LAMBDA link : link.targetNoteId \in DOMAIN map))]

\* a filter that tests the value of every attribute, relation or not
FilterAnyAttribute(m, map) ==
    [m EXCEPT
        !.attributes = Some(SelectSeq(Get(@),
            LAMBDA attr : attr.value \in DOMAIN map)),
        !.links = Some(SelectSeq(Get(@),
            LAMBDA link : link.targetNoteId \in DOMAIN map))]

\* the two filters applied to one registered object
FilterMeta(m, map) ==
    [m EXCEPT
        !.attributes = Some(SelectSeq(Get(@),
            LAMBDA attr : attr.type # "relation" \/ attr.value \in DOMAIN map)),
        !.links = Some(SelectSeq(Get(@),
            LAMBDA link : link.targetNoteId \in DOMAIN map))]

\* Object.values(noteIdToMeta)
Registered(map) == { map[id] : id \in DOMAIN map }

\* the loop over Object.values(noteIdToMeta)
Filter ==
    /\ pc = "filter"
    /\ metas' = [i \in DOMAIN metas |->
                    IF i \in Registered(noteIdToMeta)
                    THEN FilterMeta(metas[i], noteIdToMeta)
                    ELSE metas[i]]
    /\ pc' = "check"
    /\ UNCHANGED << repo, branch, format, noteIdToMeta, existingFileNames,
                    stack, rootMeta, res >>
    /\ UNCHANGED saveVars

\* corner case of disabled export for the exported note
Respond400 ==
    /\ pc = "check"
    /\ ~ IsSome(rootMeta)
    /\ res' = [res EXCEPT !.status = 400]
    /\ pc' = "done"
    /\ UNCHANGED << repo, branch, format >>
    /\ UNCHANGED buildVars
    /\ UNCHANGED saveVars

RECURSIVE Stringify(_, _)
\* JSON.stringify of a manifest object: the object with its children in place
Stringify(M, idx) ==
    [M[idx] EXCEPT
        !.children = IF IsSome(@)
                     THEN Some([j \in 1 .. Len(Get(@)) |-> Stringify(M, Get(@)[j])])
                     ELSE None]

MetaFileName == << "!", "!", "!", "m", "e", "t", "a", ".", "j", "s", "o", "n" >>

\* pack.entry({name: "!!!meta.json", ...}, metaFileJson)
WriteMetaFile ==
    /\ pc = "check"
    /\ IsSome(rootMeta)
    /\ pack' = [pack EXCEPT !.entries = Append(@,
                    [name |-> MetaFileName, type |-> "file",
                     content |-> << [version |-> 1,
                                     files |-> << Stringify(metas, Get(rootMeta)) >>] >>])]
    /\ pc' = "save"
    /\ UNCHANGED << repo, branch, format, notePaths, saveStack, res >>
    /\ UNCHANGED buildVars

\* --------------------------------------------------------------- saveNote
\* prepareContent(note, format): the converters are external functions
prepareContent(note, fmt) ==
    IF fmt = Some("html") THEN << "html.prettyPrint" >> \o note.content
    ELSE IF fmt = Some("markdown") THEN << "turndown" >> \o note.content
    ELSE note.content

\* a saveNote that forgets the directory it is in
JoinFlat(path, name) == << "/" >> \o name

\* path + '/' + name
Join(path, name) == path \o << "/" >> \o name

\* noteMeta.dataFileName || noteMeta.dirFileName
DataOrDirName(m) ==
    IF IsSome(m.dataFileName) THEN Get(m.dataFileName)
    ELSE IF IsSome(m.dirFileName) THEN Get(m.dirFileName)
    ELSE << "undefined" >>

\* a saveNote that does not record where it put the note
RecordNoPath(paths, noteId, p) == paths

\* notePaths[note.noteId] = ..., done before the children are saved
RecordPath(paths, noteId, p) == (noteId :> p) @@ paths

\* "Note is present at " + notePaths[noteMeta.noteId]
CloneContent(paths, noteId) ==
    << "Note is present at " >>
        \o (IF noteId \in DOMAIN paths THEN paths[noteId] ELSE << "undefined" >>)

\* saveNote(noteMeta, path) up to its loop over the children: the entries
\* and paths as the call leaves them and the loop it still has to run
EnterSave(idx, path, entries, paths) ==
    LET noteMeta == metas[idx]
    IN  IF noteMeta.clone
        THEN [entries |-> Append(entries,
                  [name |-> Join(path, Get(noteMeta.dataFileName)), type |-> "file",
                   content |-> CloneContent(paths, noteMeta.noteId)]),
              paths |-> paths, frame |-> None]
        ELSE LET note == repo[noteMeta.noteId]
                 withData ==
                     IF IsSome(noteMeta.dataFileName)
                     THEN Append(entries,
                              [name |-> Join(path, Get(noteMeta.dataFileName)),
                               type |-> "file",
                               content |-> prepareContent(note, noteMeta.format)])
                     ELSE entries
                 hasChildren == IsSome(noteMeta.children) /\ Len(Get(noteMeta.children)) > 0
                 directoryPath == Join(path, Get(noteMeta.dirFileName))
             IN  [entries |-> IF hasChildren
                              THEN Append(withData, [name |-> directoryPath,
                                                     type |-> "directory",
                                                     content |-> << >>])
                              ELSE withData,
                  paths |-> RecordPath(paths, note.noteId, Join(path, DataOrDirName(noteMeta))),
                  frame |-> IF hasChildren
                            THEN Some([meta |-> idx, path |-> directoryPath, i |-> 1])
                            ELSE None]

\* the call saveNote(metaFile.files[0], '')
SaveRoot ==
    /\ pc = "save"
    /\ LET r == EnterSave(Get(rootMeta), << >>, pack.entries, notePaths)
       IN  /\ pack' = [pack EXCEPT !.entries = r.entries]
           /\ notePaths' = r.paths
           /\ IF IsSome(r.frame)
              THEN saveStack' = << Get(r.frame) >> /\ pc' = "saving"
              ELSE saveStack' = << >> /\ pc' = "finalize"
    /\ UNCHANGED << repo, branch, format, res >>
    /\ UNCHANGED buildVars

\* one iteration of the loop over noteMeta.children
SaveChild ==
    /\ pc = "saving"
    /\ LET top == saveStack[Len(saveStack)]
           children == Get(metas[top.meta].children)
       IN  /\ top.i <= Len(children)
           /\ LET r == EnterSave(children[top.i], top.path, pack.entries, notePaths)
                  advanced == [saveStack EXCEPT ![Len(saveStack)].i = @ + 1]
              IN  /\ pack' = [pack EXCEPT !.entries = r.entries]
                  /\ notePaths' = r.paths
                  /\ saveStack' = IF IsSome(r.frame)
                                  THEN Append(advanced, Get(r.frame))
                                  ELSE advanced
    /\ UNCHANGED << repo, branch, format, pc, res >>
    /\ UNCHANGED buildVars

\* the loop is over: saveNote returns
SaveReturn ==
    /\ pc = "saving"
    /\ LET top == saveStack[Len(saveStack)]
       IN  /\ top.i > Len(Get(metas[top.meta].children))
           /\ saveStack' = SubSeq(saveStack, 1, Len(saveStack) - 1)
           /\ pc' = IF Len(saveStack) = 1 THEN "finalize" ELSE pc
    /\ UNCHANGED << repo, branch, format, notePaths, pack, res >>
    /\ UNCHANGED buildVars

\* an export that goes on without finalizing the pack
FinalizeSkipped ==
    /\ pc = "finalize"
    /\ pc' = "respond"
    /\ UNCHANGED << repo, branch, format, notePaths, saveStack, pack, res >>
    /\ UNCHANGED << metas, noteIdToMeta, existingFileNames, stack, rootMeta >>

\* an export that pipes the pack as soon as it is finalized, before the
\* last fetch of the root note
FinalizePiping ==
    /\ pc = "finalize"
    /\ pack' = [pack EXCEPT !.finalized = TRUE]
    /\ res' = [res EXCEPT !.piped = TRUE]
    /\ pc' = "respond"
    /\ UNCHANGED << repo, branch, format, notePaths, saveStack >>
    /\ UNCHANGED << metas, noteIdToMeta, existingFileNames, stack, rootMeta >>

\* pack.finalize()
Finalize ==
    /\ pc = "finalize"
    /\ pack' = [pack EXCEPT !.finalized = TRUE]
    /\ pc' = "respond"
    /\ UNCHANGED << repo, branch, format, notePaths, saveStack, res >>
    /\ UNCHANGED buildVars

\* the name of the tar file offered to the client
TarFileName ==
    sanitize((IF IsSome(branch.prefix) THEN Get(branch.prefix) \o << " ", "-", " " >>
              ELSE << >>) \o repo[branch.noteId].title)
        \o << ".", "t", "a", "r" >>

\* the headers are set and the pack is piped to the response
Respond ==
    /\ pc = "respond"
    /\ res' = [res EXCEPT
                 !.headers = << [name |-> "Content-Disposition", value |-> TarFileName],
                                [name |-> "Content-Type",
                                 value |-> << "application/tar" >>] >>,
                 !.piped = TRUE]
    /\ pc' = "done"
    /\ UNCHANGED << repo, branch, format >>
    /\ UNCHANGED buildVars
    /\ UNCHANGED saveVars

\* a fetch from the persistence layer rejects: the exception leaves
\* exportToTar, which does nothing more
FetchPending ==
    \/ pc \in {"start", "save", "respond"}
    \/ /\ pc = "build"
       /\ stack[Len(stack)].i <= Len(stack[Len(stack)].childBranches)
    \/ /\ pc = "saving"
       /\ LET top == saveStack[Len(saveStack)]
              children == Get(metas[top.meta].children)
          IN  top.i <= Len(children) /\ ~ metas[children[top.i]].clone

FetchFails ==
    /\ FetchPending
    /\ pc' = "failed"
    /\ UNCHANGED << repo, branch, format, res >>
    /\ UNCHANGED buildVars
    /\ UNCHANGED saveVars

Next ==
    \/ Start
    \/ VisitChild
    \/ Return
    \/ Filter
    \/ Respond400
    \/ WriteMetaFile
    \/ SaveRoot
    \/ SaveChild
    \/ SaveReturn
    \/ Finalize
    \/ Respond
    \/ FetchFails

Spec == Init /\ [][Next]_vars

TypeOK ==
    /\ pc \in {"start", "build", "filter", "check", "save", "saving",
               "finalize", "respond", "done", "failed"}
    /\ Len(stack) <= MaxDepth
    /\ pack.finalized \in BOOLEAN

\* ================================================================= claims
\* getNote(branch, []) has returned and the manifest is complete
BuildDone ==
    pc \in {"filter", "check", "save", "saving", "finalize", "respond", "done"}

\* the on-disk names one manifest object puts into its parent's directory
NamesOf(m) ==
    (IF IsSome(m.dataFileName) THEN { Get(m.dataFileName) } ELSE {})
        \cup (IF IsSome(m.dirFileName) THEN { Get(m.dirFileName) } ELSE {})

\* the (child position, name) pairs of the directory of object idx
DirectorySlots(idx) ==
    LET children == Get(metas[idx].children)
    IN  UNION { { << j, name >> : name \in NamesOf(metas[children[j]]) } :
                j \in 1 .. Len(children) }

\* C1: once the manifest is built, the names used inside every directory
\* (data files and directories of all children together) are pairwise
\* different when compared case-insensitively.
UniqueNamesPerDirectory ==
    BuildDone =>
        \A idx \in DOMAIN metas :
            IsSome(metas[idx].children) =>
                \A s, t \in DirectorySlots(idx) :
                    s # t => ToLowerCase(s[2]) # ToLowerCase(t[2])

RECURSIVE Preorder(_, _)
\* the manifest objects below (and including) idx in depth-first order,
\* children in the order of the children array
Preorder(M, idx) ==
    LET children == IF IsSome(M[idx].children) THEN Get(M[idx].children) ELSE << >>
        F[j \in 0 .. Len(children)] ==
            IF j = 0 THEN << >> ELSE F[j - 1] \o Preorder(M, children[j])
    IN  << idx >> \o F[Len(children)]

\* C2: in the built manifest the first occurrence of every noteId in
\* depth-first order is its only full node; every later occurrence is a clone
\* stub without attributes, links or children.
FirstOccurrenceIsFull ==
    (BuildDone /\ IsSome(rootMeta)) =>
        LET order == Preorder(metas, Get(rootMeta))
        IN  \A k \in 1 .. Len(order) :
                LET m == metas[order[k]]
                    first == \A j \in 1 .. (k - 1) : metas[order[j]].noteId # m.noteId
                IN  IF first
                    THEN ~ m.clone
                    ELSE /\ m.clone
                         /\ m.attributes = None
                         /\ m.links = None
                         /\ m.children = None

\* a manifest was built in which some note occurs a second time
ManifestHasClone ==
    /\ BuildDone
    /\ IsSome(rootMeta)
    /\ \E i \in DOMAIN metas : metas[i].clone

RECURSIVE FullPaths(_, _, _)
\* for every full node at or below idx, in directory path: the noteId with
\* the path of the first archive entry of the node (its data file if it has
\* one, else its directory)
FullPaths(M, idx, path) ==
    LET m == M[idx]
        own == IF IsSome(m.dataFileName) THEN m.dataFileName ELSE m.dirFileName
        below == IF IsSome(m.children) /\ IsSome(m.dirFileName)
                 THEN UNION { FullPaths(M, Get(m.children)[j],
                                        path \o << "/" >> \o Get(m.dirFileName)) :
                              j \in 1 .. Len(Get(m.children)) }
                 ELSE {}
    IN  IF m.clone THEN {}
        ELSE { << m.noteId, path \o << "/" >> \o Get(own) >> } \cup below

\* the manifest object saveNote is about to be called with, if any
NextSaved ==
    IF pc = "saving" /\ saveStack # << >>
    THEN LET top == saveStack[Len(saveStack)]
             children == Get(metas[top.meta].children)
         IN  IF top.i <= Len(children) THEN Some(children[top.i]) ELSE None
    ELSE None

\* C3: whenever saveNote emits a clone stub, a path is already recorded for
\* the noteId and the stub's content is "Note is present at " followed by
\* the path of the first occurrence of that note.
CloneStubNamesFirstPath ==
    [][ (IsSome(NextSaved) /\ pack'.entries # pack.entries
            /\ metas[Get(NextSaved)].clone)
        => LET noteId == metas[Get(NextSaved)].noteId
               stub == pack'.entries[Len(pack'.entries)]
           IN  /\ noteId \in DOMAIN notePaths
               /\ \E fp \in FullPaths(metas, Get(rootMeta), << >>) :
                      /\ fp[1] = noteId
                      /\ stub.content = << "Note is present at " >> \o fp[2] ]_vars

\* a clone stub has been written to the archive
CloneStubWritten ==
    \E k \in 2 .. Len(pack.entries) :
        /\ Len(pack.entries[k].content) > 1
        /\ pack.entries[k].content[1] = "Note is present at "

\* the reference filter has run
FilterDone == pc \in {"check", "save", "saving", "finalize", "respond", "done"}

RECURSIVE NoDangling(_, _)
\* no link or relation of a serialised manifest node, or of a node below it,
\* names a noteId outside keys
NoDangling(node, keys) ==
    /\ IsSome(node.links) =>
          \A k \in 1 .. Len(Get(node.links)) : Get(node.links)[k].targetNoteId \in keys
    /\ IsSome(node.attributes) =>
          \A k \in 1 .. Len(Get(node.attributes)) :
              Get(node.attributes)[k].type = "relation"
                  => Get(node.attributes)[k].value \in keys
    /\ IsSome(node.children) =>
          \A j \in 1 .. Len(Get(node.children)) : NoDangling(Get(node.children)[j], keys)

\* C4: after the reference filter every remaining link target and relation
\* value of every registered object is a key of noteIdToMeta, and so is every
\* one in the manifest entry written to the archive.
ReferencesClosed ==
    FilterDone =>
        /\ \A i \in Registered(noteIdToMeta) :
              NoDangling([metas[i] EXCEPT !.children = None], DOMAIN noteIdToMeta)
        /\ pack.entries # << >> =>
              NoDangling(pack.entries[1].content[1].files[1], DOMAIN noteIdToMeta)

\* the manifest entry was written after the filter dropped a link
DanglingLinkDropped ==
    /\ FilterDone
    /\ pack.entries # << >>
    /\ \E id \in DOMAIN noteIdToMeta :
           Len(Get(metas[noteIdToMeta[id]].links)) < Len(repo[id].links)

\* the work the build still has ahead: the branches (plus two) of every note
\* not yet registered, the iterations left in every loop in progress, the
\* calls in progress, and the call that has not started
BuildMeasure ==
    LET U[n \in 0 .. NumNotes] ==
            IF n = 0 THEN 0
            ELSE U[n - 1] + (IF n \in DOMAIN noteIdToMeta THEN 0
                             ELSE Len(repo[n].childBranches) + 2)
        W[k \in 0 .. Len(stack)] ==
            IF k = 0 THEN 0
            ELSE W[k - 1] + (Len(stack[k].childBranches) + 1 - stack[k].i)
    IN  U[NumNotes] + W[Len(stack)] + Len(stack) + (IF pc = "start" THEN 1 ELSE 0)

\* C5: the manifest build terminates on every note graph, branch cycles
\* included: every step of the build strictly decreases a natural number,
\* and while the build runs a step is always possible, the recursion being
\* no deeper than the number of notes.
BuildTerminates ==
    /\ [](/\ BuildMeasure >= 0
          /\ pc = "build" => (stack # << >> /\ Len(stack) <= NumNotes))
    /\ [][(pc \in {"start", "build"} /\ pc' \in {"build", "filter"})
            => BuildMeasure' < BuildMeasure]_vars

\* a build has returned although a note lies in its own subtree: a clone
\* stub of a note sits below that note's full node
CycleBuilt ==
    /\ BuildDone
    /\ \E f, c \in DOMAIN metas :
           /\ ~ metas[f].clone
           /\ metas[c].clone
           /\ metas[c].noteId = metas[f].noteId
           /\ \E k \in 1 .. Len(Preorder(metas, f)) : Preorder(metas, f)[k] = c

\* the note of the exported branch carries the exclusion label
RootExcluded == repo[branch.noteId].excludeFromExport

\* C6: when the root note is excluded, nothing is ever written to the
\* archive, it is never finalized, no header is set, nothing is piped, and
\* the export ends with status 400.
RootExcludedRejected ==
    RootExcluded =>
        /\ rootMeta = None
        /\ pack.entries = << >>
        /\ ~ pack.finalized
        /\ res.headers = << >>
        /\ ~ res.piped
        /\ pc = "done" => res.status = 400

\* an export of an excluded root has ended with 400
RootExcludedAnswered ==
    /\ RootExcluded
    /\ pc = "done"
    /\ res.status = 400

\* the state of the archive sink respects the order manifest, content,
\* finalize, pipe
SinkOrdered ==
    /\ \A k \in 1 .. Len(pack.entries) : (pack.entries[k].name = MetaFileName) <=> (k = 1)
    /\ pack.entries # << >> =>
          /\ FilterDone \/ pc = "failed"
          /\ pack.entries[1].content =
                << [version |-> 1, files |-> << Stringify(metas, Get(rootMeta)) >>] >>
    /\ pack.finalized =>
          /\ pack.entries # << >>
          /\ saveStack = << >>
          /\ pc \in {"respond", "done", "failed"}
    /\ res.piped => pack.finalized
    /\ (pc = "done" /\ res.status # 400) => res.piped

\* C7: in every export the manifest entry is the first entry and the only
\* one of that name, written after the filter; finalize comes after all
\* entries, the pipe after finalize, and nothing changes in the archive once
\* it is finalized.
ArchiveOrder ==
    /\ []SinkOrdered
    /\ [][pack.finalized => pack' = pack]_vars

\* a successful export wrote content entries, finalized and piped
ExportPiped ==
    /\ pc = "done"
    /\ res.piped
    /\ Len(pack.entries) >= 3

\* C8: a full manifest node has a dataFileName exactly when its note has no
\* child branches or has non-empty content.
DataFileRule ==
    \A i \in DOMAIN metas :
        ~ metas[i].clone =>
            (IsSome(metas[i].dataFileName)
                <=> \/ Len(repo[metas[i].noteId].childBranches) = 0
                    \/ Len(repo[metas[i].noteId].content) > 0)

\* an empty leaf note was given a data file
EmptyLeafHasDataFile ==
    \E i \in DOMAIN metas :
        /\ ~ metas[i].clone
        /\ Len(repo[metas[i].noteId].childBranches) = 0
        /\ Len(repo[metas[i].noteId].content) = 0
        /\ IsSome(metas[i].dataFileName)

\* C9: under markdown every data file of a text note ends with ".md".
MarkdownExtension ==
    format = "markdown" =>
        \A i \in DOMAIN metas :
            (/\ ~ metas[i].clone
             /\ repo[metas[i].noteId].type = "text"
             /\ IsSome(metas[i].dataFileName))
                => EndsWith(Get(metas[i].dataFileName), << ".", "m", "d" >>)

\* the scenario: text note "Root" without content, whose child branches
\* lead to the text notes "A" and "a", exported as markdown
IsScenario ==
    /\ format = "markdown"
    /\ branch.prefix = None
    /\ repo[1].title = << "R", "o", "o", "t" >> /\ repo[1].content = << >>
    /\ Len(repo[1].childBranches) = 2
    /\ repo[1].childBranches[1].noteId = 2 /\ repo[1].childBranches[2].noteId = 3
    /\ \A n \in {2, 3} :
          /\ repo[n].type = "text"
          /\ repo[n].childBranches = << >>
          /\ repo[n].content # << >>
          /\ ~ repo[n].excludeFromExport
    /\ repo[2].title = << "A" >> /\ repo[3].title = << "a" >>
    /\ ~ repo[1].excludeFromExport

\* C10: in the scenario the root gets only the directory "Root", the first
\* child the data file "A.md" and the second "a_1.md".
ScenarioNames ==
    (IsScenario /\ BuildDone) =>
        /\ metas[1].dataFileName = None
        /\ metas[1].dirFileName = Some(<< "R", "o", "o", "t" >>)
        /\ Get(metas[1].children) = << 2, 3 >>
        /\ metas[2].dataFileName = Some(<< "A", ".", "m", "d" >>)
        /\ metas[3].dataFileName = Some(<< "a", "_", "1", ".", "m", "d" >>)

\* the entries the manifest asks for: one file per clone stub and per data
\* file name, one directory per object with children
EntriesDue ==
    { << i, "file" >> : i \in { j \in DOMAIN metas : IsSome(metas[j].dataFileName) } }
        \cup { << i, "directory" >> :
                  i \in { j \in DOMAIN metas :
                            /\ IsSome(metas[j].children)
                            /\ Len(Get(metas[j].children)) > 0 } }

\* C12: there is no partial success.  When a fetch has failed, in the build
\* or in the emit pass, nothing has been piped and no header has been set;
\* the pack is piped only when the manifest entry and every content entry
\* have been written and the pack is finalized.
NoPartialSuccess ==
    /\ pc = "failed" => (~ res.piped /\ res.headers = << >> /\ res.status = 0)
    /\ res.piped =>
          /\ pack.finalized
          /\ saveStack = << >>
          /\ pack.entries[1].name = MetaFileName
          /\ Len(pack.entries) = 1 + Cardinality(EntriesDue)

\* a fetch failed in the emit pass, after entries had been written
FailedAfterEntries ==
    /\ pc = "failed"
    /\ Len(pack.entries) > 1
    /\ ~ res.piped

\* the names one manifest object asks for, in the order getNote asks for
\* them, each with the name it was given
CandidateSlots(m) ==
    LET note == repo[m.noteId]
        baseFileName == BaseFileName([prefix |-> m.prefix], note)
    IN  IF m.clone
        THEN << [candidate |-> sanitize(baseFileName \o << ".", "c", "l", "o", "n", "e" >>),
                 name |-> Get(m.dataFileName)] >>
        ELSE (IF IsSome(m.dataFileName)
              THEN << [candidate |-> DataFileCandidate(note, baseFileName, format),
                       name |-> Get(m.dataFileName)] >>
              ELSE << >>)
             \o (IF IsSome(m.dirFileName)
                 THEN << [candidate |-> baseFileName, name |-> Get(m.dirFileName)] >>
                 ELSE << >>)

\* the slots of all children of one directory, in the order of the children
SlotsOfDirectory(idx) ==
    LET children == Get(metas[idx].children)
        F[j \in 0 .. Len(children)] ==
            IF j = 0 THEN << >> ELSE F[j - 1] \o CandidateSlots(metas[children[j]])
    IN  F[Len(children)]

\* C13: collisions are resolved per directory only.  A name asked for in a
\* directory in which no earlier child asked for the same name (compared
\* case-insensitively) is given as asked, without a suffix, whatever names
\* are in use in other directories.
NamesResolvedPerDirectory ==
    BuildDone =>
        \A idx \in DOMAIN metas :
            IsSome(metas[idx].children) =>
                LET slots == SlotsOfDirectory(idx)
                IN  \A k \in 1 .. Len(slots) :
                        (\A j \in 1 .. (k - 1) :
                            ToLowerCase(slots[j].candidate)
                                # ToLowerCase(slots[k].candidate))
                        => slots[k].name = slots[k].candidate

\* the note has a child branch that leads to a note which is exported
HasExportedChild(note) ==
    \E k \in 1 .. Len(note.childBranches) :
        ~ repo[note.childBranches[k].noteId].excludeFromExport

\* C14: in the built manifest a non-clone node has a dirFileName, and a
\* children sequence, exactly when its note has a child that is not
\* excluded; a note all of whose child branches lead to excluded notes is
\* treated like a leaf and has a data file name.
DirFileNameIffExportedChild ==
    BuildDone =>
        \A i \in DOMAIN metas :
            ~ metas[i].clone =>
                LET note == repo[metas[i].noteId]
                IN  /\ IsSome(metas[i].dirFileName) <=> HasExportedChild(note)
                    /\ IsSome(metas[i].children) <=> HasExportedChild(note)
                    /\ ~ HasExportedChild(note) => IsSome(metas[i].dataFileName)

\* saveNote(metaFile.files[0], '') has returned
EmitDone == pc \in {"finalize", "respond", "done"} /\ IsSome(rootMeta)

RECURSIVE Placement(_, _, _)
\* every manifest object at or below idx with the path of the directory it
\* lies in, idx itself lying in path
Placement(M, idx, path) ==
    LET m == M[idx]
    IN  { << idx, path >> }
            \cup (IF IsSome(m.children)
                  THEN UNION { Placement(M, Get(m.children)[j],
                                         path \o << "/" >> \o Get(m.dirFileName)) :
                               j \in 1 .. Len(Get(m.children)) }
                  ELSE {})

\* the archive holds an entry of the given type and name
Written(type, name) ==
    \E k \in 1 .. Len(pack.entries) :
        pack.entries[k].type = type /\ pack.entries[k].name = name

\* C15: when the emit pass is over, every non-clone node with a dirFileName
\* has its directory entry at currentPath + "/" + dirFileName, every
\* non-clone node with a dataFileName has its file entry at currentPath +
\* "/" + dataFileName, and so every non-clone node has an entry.
EveryNodeHasItsEntries ==
    EmitDone =>
        \A p \in Placement(metas, Get(rootMeta), << >>) :
            LET m == metas[p[1]]
            IN  ~ m.clone =>
                  /\ IsSome(m.dirFileName) =>
                        Written("directory", p[2] \o << "/" >> \o Get(m.dirFileName))
                  /\ IsSome(m.dataFileName) =>
                        Written("file", p[2] \o << "/" >> \o Get(m.dataFileName))
                  /\ \E k \in 1 .. Len(pack.entries) :
                        pack.entries[k].name \in
                            { p[2] \o << "/" >> \o n : n \in NamesOf(m) }

\* the child branch the loop of getNote is about to visit, if any
NextVisited ==
    IF pc = "build" /\ stack # << >>
    THEN LET top == stack[Len(stack)]
         IN  IF top.i <= Len(top.childBranches)
             THEN Some(top.childBranches[top.i]) ELSE None
    ELSE None

\* C16: an excluded note below the root is pruned without a trace.  The
\* visit of a branch to an excluded note adds no manifest object, registers
\* nothing, reserves no name and opens no call for the note's children: it
\* only moves the loop to the next sibling, so the siblings are named and
\* ordered as if the branch did not exist; and the built manifest holds no
\* object for an excluded note.
ExcludedNotePruned ==
    /\ [](BuildDone =>
            \A n \in Notes :
                repo[n].excludeFromExport =>
                    /\ n \notin DOMAIN noteIdToMeta
                    /\ \A i \in DOMAIN metas : metas[i].noteId # n)
    /\ [][ (/\ IsSome(NextVisited)
            /\ repo[Get(NextVisited).noteId].excludeFromExport
            /\ pc' = "build")
           => /\ metas' = metas
              /\ noteIdToMeta' = noteIdToMeta
              /\ existingFileNames' = existingFileNames
              /\ stack' = [stack EXCEPT ![Len(stack)].i = @ + 1] ]_vars

\* a branch to an excluded note was passed over and a later sibling of it
\* has its manifest object
ExcludedChildSkipped ==
    /\ BuildDone
    /\ \E i \in DOMAIN metas :
          /\ IsSome(metas[i].children)
          /\ Len(Get(metas[i].children)) > 0
          /\ LET childBranches == repo[metas[i].noteId].childBranches
             IN  \E k, l \in 1 .. Len(childBranches) :
                    /\ k < l
                    /\ repo[childBranches[k].noteId].excludeFromExport
                    /\ ~ repo[childBranches[l].noteId].excludeFromExport

\* new is old without the elements at the positions outside keep, the
\* others in their order
Remains(old, new, keep) ==
    /\ Len(new) = Cardinality(keep)
    /\ \A j \in 1 .. Len(new) :
          new[j] = old[CHOOSE k \in keep :
                          Cardinality({ l \in keep : l <= k }) = j]

\* C17: the reference filter removes exactly the dangling references.  In
\* every registered object a relation attribute or a link stays if and only
\* if its target is registered when the whole build is over, every other
\* attribute stays, the order is kept and no other field changes; the clone
\* stubs and the registrations are left alone.
FilterRemovesExactlyDangling ==
    [][ (pc = "filter" /\ pc' = "check")
        => /\ DOMAIN metas' = DOMAIN metas
           /\ noteIdToMeta' = noteIdToMeta
           /\ \A i \in DOMAIN metas :
                 IF \E id \in DOMAIN noteIdToMeta : noteIdToMeta[id] = i
                 THEN LET old == metas[i]
                          new == metas'[i]
                          attrs == Get(old.attributes)
                          links == Get(old.links)
                      IN  /\ [new EXCEPT !.attributes = old.attributes,
                                         !.links = old.links] = old
                          /\ Remains(attrs, Get(new.attributes),
                                { k \in 1 .. Len(attrs) :
                                    \/ attrs[k].type # "relation"
                                    \/ attrs[k].value \in DOMAIN noteIdToMeta })
                          /\ Remains(links, Get(new.links),
                                { k \in 1 .. Len(links) :
                                    links[k].targetNoteId \in DOMAIN noteIdToMeta })
                 ELSE metas'[i] = metas[i] ]_vars

\* after the filter an object still links to a note registered after it,
\* and has lost a relation whose target was never registered
ForwardReferenceKept ==
    /\ FilterDone
    /\ \E id \in DOMAIN noteIdToMeta :
          LET m == metas[noteIdToMeta[id]]
          IN  /\ \E k \in 1 .. Len(Get(m.links)) :
                    noteIdToMeta[Get(m.links)[k].targetNoteId] > noteIdToMeta[id]
              /\ \E k \in 1 .. Len(repo[id].attributes) :
                    /\ repo[id].attributes[k].type = "relation"
                    /\ repo[id].attributes[k].value \notin DOMAIN noteIdToMeta
              /\ \A k \in 1 .. Len(Get(m.attributes)) :
                    \/ Get(m.attributes)[k].type # "relation"
                    \/ Get(m.attributes)[k].value \in DOMAIN noteIdToMeta

\* C18: in the built manifest every dirFileName is the sanitized base file
\* name of its branch, possibly followed by "_" and a number, and holds no
\* character that the sanitizer removes.
DirFileNameSanitized ==
    BuildDone =>
        \A i \in DOMAIN metas :
            IsSome(metas[i].dirFileName) =>
                LET dirFileName == Get(metas[i].dirFileName)
                    clean == sanitize(BaseFileName([prefix |-> metas[i].prefix],
                                                   repo[metas[i].noteId]))
                IN  /\ \/ dirFileName = clean
                       \/ \E n \in 1 .. (Len(metas) + 1) :
                              dirFileName = clean \o << "_" >> \o NumToString(n)
                    /\ \A k \in 1 .. Len(dirFileName) :
                          dirFileName[k] \notin IllegalChars

\* C19: in a finished archive the path named in the content of every clone
\* stub is the path of a file or directory entry of the archive, written
\* before the stub's own entry.
CloneStubPathWritten ==
    pack.finalized =>
        \A k \in 2 .. Len(pack.entries) :
            LET stub == pack.entries[k]
            IN  (/\ stub.type = "file"
                 /\ Len(stub.content) > 1
                 /\ stub.content[1] = "Note is present at ")
                => \E j \in 2 .. (k - 1) :
                       stub.content = << "Note is present at " >> \o pack.entries[j].name

RECURSIVE ManifestOrder(_, _, _)
\* the entry names the manifest at and below idx asks for, depth first: the
\* object's file, its directory, then the subtrees of its children one
\* after the other, each below the directory of its parent
ManifestOrder(M, idx, path) ==
    LET m == M[idx]
        children == IF IsSome(m.children) THEN Get(m.children) ELSE << >>
        file == IF IsSome(m.dataFileName)
                THEN << path \o << "/" >> \o Get(m.dataFileName) >> ELSE << >>
        F[j \in 0 .. Len(children)] ==
            IF j = 0 THEN << >>
            ELSE F[j - 1] \o ManifestOrder(M, children[j],
                                           path \o << "/" >> \o Get(m.dirFileName))
    IN  IF Len(children) = 0 THEN file
        ELSE file \o << path \o << "/" >> \o Get(m.dirFileName) >> \o F[Len(children)]

\* C20: entries reach the archive in the depth-first order of the
\* manifest, parents before children.  At every moment the names written
\* so far are the beginning of: the manifest entry, then for every object
\* its file, its directory and the whole subtree of each child in turn, a
\* child's path being its parent's directory path, "/" and its own name;
\* the finished archive holds that sequence whole.
EntriesInManifestOrder ==
    pack.entries # << >> =>
        LET names == [k \in 1 .. Len(pack.entries) |-> pack.entries[k].name]
            due == << MetaFileName >> \o ManifestOrder(metas, Get(rootMeta), << >>)
        IN  /\ Len(names) <= Len(due)
            /\ names = SubSeq(due, 1, Len(names))
            /\ pack.finalized => names = due

\* a finished archive in which a child with a subtree of its own is followed
\* by a sibling
SubtreeBeforeSibling ==
    /\ pack.finalized
    /\ \E i \in DOMAIN metas :
          /\ IsSome(metas[i].children)
          /\ Len(Get(metas[i].children)) > 1
          /\ LET first == metas[Get(metas[i].children)[1]]
             IN  IsSome(first.children) /\ Len(Get(first.children)) > 0

====
